---- MODULE Spec2Model ----
(***************************************************************************)
(* A model of qax/utils.py: one-layer flattening of ImplicitArray nodes,   *)
(* implicit_depth, the path-addressed leaf mapper, the pruning transform   *)
(* and get_common_prefix_transforms.                                       *)
(*                                                                         *)
(* A node is a record [kind, meta, children]: kind "C" is a concrete array *)
(* leaf, kind "V" is an ImplicitArray; meta is the aval (shape and dtype)  *)
(* the node carries or declares; children are the leaves obtained by       *)
(* flattening an ImplicitArray one layer.  A tree is a record              *)
(* [container, leaves]: the leaves of its flattening with ImplicitArrays   *)
(* as leaves, and the container kind that together with the number of     *)
(* leaves makes its PyTreeDef.  Paths hold the 0-based indices of the      *)
(* source.  Containers nested inside a tree or inside an ImplicitArray are *)
(* not modelled: jax flattens them away, and only the equality of the      *)
(* PyTreeDefs they leave is used by the code.                              *)
(***************************************************************************)
EXTENDS Integers, Sequences, FiniteSets, TLC

\* Bounds of the model.
MaxNodes == 4
MaxTrees == 3

Metas == {"f32", "f64"}
Containers == {"list"}

Concrete(m) == [kind |-> "C", meta |-> m, children |-> <<>>]
Virtual(m, ch) == [kind |-> "V", meta |-> m, children |-> ch]

RECURSIVE Cup(_, _, _)
\* The union of F(lo), ..., F(hi).
Cup(F(_), lo, hi) == IF lo > hi THEN {} ELSE F(hi) \cup Cup(F, lo, hi - 1)

\* NodesFrom(T, k): the nodes made of exactly k nodes (the node itself and its
\* descendants), given T[j + 1], the sequences of nodes made of j < k nodes.
NodesFrom(T, k) ==
    (IF k = 1 THEN {Concrete(m) : m \in Metas} ELSE {})
    \cup {Virtual(m, ch) : m \in Metas, ch \in T[k]}

RECURSIVE ForestTable(_)
\* ForestTable(s)[j + 1]: the sequences of nodes made of exactly j nodes in
\* total, for j in 0..s.
ForestTable(s) ==
    IF s = 0 THEN <<{<<>>}>>
    ELSE LET T == ForestTable(s - 1)
             WithFirst(k) == {<<n>> \o r : n \in NodesFrom(T, k), r \in T[s - k + 1]}
         IN  Append(T, Cup(WithFirst, 1, s))

Forests == ForestTable(MaxNodes)

\* The trees made of exactly s nodes.
TreesOfSize(s) == {[container |-> c, leaves |-> r] : c \in Containers, r \in Forests[s + 1]}

NoStruct == "none"
NoFault == [kind |-> "none"]

(***************************************************************************)
(* Helpers on sequences and paths.                                         *)
(***************************************************************************)
Range(s) == {s[i] : i \in 1..Len(s)}
Last(s) == s[Len(s)]
Front(s) == SubSeq(s, 1, Len(s) - 1)
Min(a, b) == IF a < b THEN a ELSE b
IsPrefix(p, q) == Len(p) <= Len(q) /\ SubSeq(q, 1, Len(p)) = p
IsProperPrefix(p, q) == Len(p) < Len(q) /\ SubSeq(q, 1, Len(p)) = p

RECURSIVE Flatten(_)
\* itertools.chain.from_iterable / list.extend over a sequence of sequences.
Flatten(ss) == IF ss = <<>> THEN <<>> ELSE Head(ss) \o Flatten(Tail(ss))

(***************************************************************************)
(* The tree helpers of the source.                                         *)
(***************************************************************************)
leaf_predicate(x) == x.kind = "V"

\* core.get_aval: the shape and dtype of a concrete leaf, or those an
\* ImplicitArray declares.
get_aval(leaf) == leaf.meta

tree_flatten_with_implicit(tree) ==
    [leaves |-> tree.leaves,
     struct |-> [type |-> tree.container, aux |-> NoStruct, arity |-> Len(tree.leaves)]]

tree_leaves_with_implicit(tree) == tree_flatten_with_implicit(tree).leaves

tree_structure_with_implicit(tree) == tree_flatten_with_implicit(tree).struct

\* tree_util.tree_unflatten for the three kinds of PyTreeDef of the model: the
\* one of a lone leaf, the one of an ImplicitArray over its children, and the
\* one of a top-level container.
tree_unflatten(struct, leaves) ==
    CASE struct.type = "*" -> leaves[1]
      [] struct.type = "ImplicitArray" -> Virtual(struct.aux, leaves)
      [] OTHER -> [container |-> struct.type, leaves |-> leaves]

\* One layer of a node: an ImplicitArray gives its children (ImplicitArrays
\* below it stay leaves) and the PyTreeDef of the ImplicitArray over them; any
\* other leaf gives itself and the PyTreeDef of a lone leaf.
flatten_one_implicit_layer(node) ==
    IF leaf_predicate(node)
    THEN [leaves |-> node.children,
          struct |-> [type |-> "ImplicitArray", aux |-> node.meta,
                      arity |-> Len(node.children)]]
    ELSE [leaves |-> <<node>>,
          struct |-> [type |-> "*", aux |-> NoStruct, arity |-> 1]]

\* ImplicitArray._materialize, one step: an ImplicitArray that wraps a single
\* ImplicitArray of the aval it declares gives that one, any other gives a
\* concrete array of the aval it declares.
materialize(node) ==
    IF Len(node.children) = 1 /\ leaf_predicate(node.children[1])
       /\ get_aval(node.children[1]) = get_aval(node)
    THEN node.children[1]
    ELSE Concrete(get_aval(node))

(***************************************************************************)
(* implicit_depth: one round of its loop.                                  *)
(***************************************************************************)
any_implicit(ls) == \E i \in 1..Len(ls) : leaf_predicate(ls[i])

\* next_leaves with the leaves of the round overwritten, not extended, by each
\* ImplicitArray: the layer of the last one only.
next_leaves_overwrite(ls) ==
    LET implicit == {i \in 1..Len(ls) : leaf_predicate(ls[i])}
    IN  IF implicit = {} THEN <<>>
        ELSE flatten_one_implicit_layer(
                 ls[CHOOSE i \in implicit : \A k \in implicit : k <= i]).leaves

\* The leaves of the next round: one layer of every ImplicitArray of this one.
next_leaves(ls) ==
    Flatten([i \in 1..Len(ls) |->
               IF leaf_predicate(ls[i]) THEN flatten_one_implicit_layer(ls[i]).leaves
               ELSE <<>>])

(***************************************************************************)
(* _map_leaves_with_implicit_path and _get_pruning_transform.              *)
(***************************************************************************)
is_leaf(path, leaf, materialization_paths) == path \in materialization_paths

\* f with one call of _materialize, not a loop.
f_one_step(path, node) == IF leaf_predicate(node) THEN materialize(node) ELSE node

RECURSIVE f(_, _)
f(path, node) == IF leaf_predicate(node) THEN f(path, materialize(node)) ELSE node

RECURSIVE map_leaves_with_implicit_path(_, _, _)
map_leaves_with_implicit_path(ls, S, path_prefix) ==
    [idx \in 1..Len(ls) |->
        LET leaf == ls[idx]
            path == Append(path_prefix, idx - 1)
        IN  IF ~leaf_predicate(leaf) \/ is_leaf(path, leaf, S)
            THEN f(path, leaf)
            ELSE LET one == flatten_one_implicit_layer(leaf)
                 IN  tree_unflatten(one.struct,
                                    map_leaves_with_implicit_path(one.leaves, S, path))]

RECURSIVE map_calls(_, _, _)
\* The arguments _map_leaves_with_implicit_path hands to
\* flatten_one_implicit_layer, with the path of each.
map_calls(ls, S, path_prefix) ==
    UNION {LET leaf == ls[idx]
               path == Append(path_prefix, idx - 1)
           IN  IF ~leaf_predicate(leaf) \/ is_leaf(path, leaf, S)
               THEN {}
               ELSE {[by |-> "map", kind |-> leaf.kind, path |-> path]}
                    \cup map_calls(flatten_one_implicit_layer(leaf).leaves, S, path)
           : idx \in 1..Len(ls)}

materialize_subtrees(tree, S) ==
    LET flat == tree_flatten_with_implicit(tree)
    IN  tree_unflatten(flat.struct, map_leaves_with_implicit_path(flat.leaves, S, <<>>))

\* The transform _get_pruning_transform returns, applied to tree.
get_pruning_transform(S, tree) == IF S = {} THEN tree ELSE materialize_subtrees(tree, S)

pruning_calls(S, tree) ==
    IF S = {} THEN {} ELSE map_calls(tree_flatten_with_implicit(tree).leaves, S, <<>>)

(***************************************************************************)
(* get_common_prefix_transforms.                                           *)
(***************************************************************************)
\* zip(*seqs): the groups of the elements at the same position, as many as
\* the shortest sequence has.
Zip(seqs) ==
    LET n == IF seqs = <<>> THEN 0
             ELSE CHOOSE m \in {Len(seqs[t]) : t \in 1..Len(seqs)} :
                     \A t \in 1..Len(seqs) : m <= Len(seqs[t])
    IN  [i \in 1..n |-> [t \in 1..Len(seqs) |-> seqs[t][i]]]

\* The first mismatch of the leaves of tree i (0-based) against the avals of
\* tree 0, or 0 when there is none.
FirstAvalMismatch(ls, post_materialization_avals) ==
    LET n == Min(Len(ls), Len(post_materialization_avals))
        bad == {j \in 1..n : get_aval(ls[j]) # post_materialization_avals[j]}
    IN  IF bad = {} THEN 0 ELSE CHOOSE j \in bad : \A k \in bad : j <= k

RECURSIVE precondition_fault_avals_first(_, _)
\* precondition_fault with the avals of a tree compared before its structure.
precondition_fault_avals_first(ts, i) ==
    IF i >= Len(ts) THEN NoFault
    ELSE LET flat0 == tree_flatten_with_implicit(ts[1])
             flat == tree_flatten_with_implicit(ts[i + 1])
             post_materialization_avals ==
                 [j \in 1..Len(flat0.leaves) |-> get_aval(flat0.leaves[j])]
             j == FirstAvalMismatch(flat.leaves, post_materialization_avals)
         IN  IF j # 0
             THEN [kind |-> "avals", expected |-> post_materialization_avals[j],
                   tree |-> i, actual |-> get_aval(flat.leaves[j])]
             ELSE IF flat.struct # flat0.struct
             THEN [kind |-> "structure"]
             ELSE precondition_fault_avals_first(ts, i + 1)

RECURSIVE precondition_fault_last_index(_, _)
\* precondition_fault with the message naming the last tree, not tree i.
precondition_fault_last_index(ts, i) ==
    IF i >= Len(ts) THEN NoFault
    ELSE LET flat0 == tree_flatten_with_implicit(ts[1])
             flat == tree_flatten_with_implicit(ts[i + 1])
             post_materialization_avals ==
                 [j \in 1..Len(flat0.leaves) |-> get_aval(flat0.leaves[j])]
             j == FirstAvalMismatch(flat.leaves, post_materialization_avals)
         IN  IF flat.struct # flat0.struct
             THEN [kind |-> "structure"]
             ELSE IF j # 0
             THEN [kind |-> "avals", expected |-> post_materialization_avals[j],
                   tree |-> Len(ts) - 1, actual |-> get_aval(flat.leaves[j])]
             ELSE precondition_fault_last_index(ts, i + 1)

RECURSIVE precondition_fault(_, _)
\* The loop over the trees 1..N-1: the ValueError it raises, or NoFault.
precondition_fault(ts, i) ==
    IF i >= Len(ts) THEN NoFault
    ELSE LET flat0 == tree_flatten_with_implicit(ts[1])
             flat == tree_flatten_with_implicit(ts[i + 1])
             post_materialization_avals ==
                 [j \in 1..Len(flat0.leaves) |-> get_aval(flat0.leaves[j])]
             j == FirstAvalMismatch(flat.leaves, post_materialization_avals)
         IN  IF flat.struct # flat0.struct
             THEN [kind |-> "structure"]
             ELSE IF j # 0
             THEN [kind |-> "avals", expected |-> post_materialization_avals[j],
                   tree |-> i, actual |-> get_aval(flat.leaves[j])]
             ELSE precondition_fault(ts, i + 1)

\* initial_stack with the entries of all positions pushed once for each tree.
initial_stack_per_tree(ts) ==
    LET groups == Zip([t \in 1..Len(ts) |-> tree_leaves_with_implicit(ts[t])])
    IN  Flatten([t \in 1..Len(ts) |->
                   [i \in 1..Len(groups) |-> [path |-> <<i - 1>>, nodes |-> groups[i]]]])

\* The stack before the loop: one entry for each top-level leaf position.
initial_stack(ts) ==
    LET groups == Zip([t \in 1..Len(ts) |-> tree_leaves_with_implicit(ts[t])])
    IN  [i \in 1..Len(groups) |-> [path |-> <<i - 1>>, nodes |-> groups[i]]]

\* aval_diff that compares nothing.
aval_diff_never(groups) == FALSE

aval_diff(groups) ==
    \E i \in 1..Len(groups) : \E t \in 2..Len(groups[i]) :
        get_aval(groups[i][t]) # get_aval(groups[i][1])

\* loop_body without the `continue` after a structure mismatch: the path is
\* recorded and the children are compared and pushed all the same.
loop_body_descends(path_prefix, nodes, rest, paths) ==
    IF ~any_implicit(nodes)
    THEN [stack |-> rest, paths |-> paths, calls |-> {}]
    ELSE LET flat == [t \in 1..Len(nodes) |-> flatten_one_implicit_layer(nodes[t])]
             called == {[by |-> "reconcile", kind |-> nodes[t].kind, path |-> path_prefix] :
                        t \in 1..Len(nodes)}
             node_structures == {flat[t].struct : t \in 1..Len(nodes)}
             groups == Zip([t \in 1..Len(nodes) |-> flat[t].leaves])
             recorded == IF Cardinality(node_structures) > 1
                         THEN paths \cup {path_prefix} ELSE paths
         IN  IF aval_diff(groups)
             THEN [stack |-> rest, paths |-> recorded \cup {path_prefix}, calls |-> called]
             ELSE [stack |-> rest \o [i \in 1..Len(groups) |->
                                        [path |-> Append(path_prefix, i - 1),
                                         nodes |-> groups[i]]],
                   paths |-> recorded, calls |-> called]

\* loop_body that records, for children of different avals, the path of the
\* first such children, not the path of their parent.
loop_body_child_path(path_prefix, nodes, rest, paths) ==
    IF ~any_implicit(nodes)
    THEN [stack |-> rest, paths |-> paths, calls |-> {}]
    ELSE LET flat == [t \in 1..Len(nodes) |-> flatten_one_implicit_layer(nodes[t])]
             called == {[by |-> "reconcile", kind |-> nodes[t].kind, path |-> path_prefix] :
                        t \in 1..Len(nodes)}
             node_structures == {flat[t].struct : t \in 1..Len(nodes)}
             groups == Zip([t \in 1..Len(nodes) |-> flat[t].leaves])
             differ == {i \in 1..Len(groups) : aval_diff(<<groups[i]>>)}
         IN  IF Cardinality(node_structures) > 1
             THEN [stack |-> rest, paths |-> paths \cup {path_prefix}, calls |-> called]
             ELSE IF aval_diff(groups)
             THEN [stack |-> rest,
                   paths |-> paths \cup {Append(path_prefix,
                                 (CHOOSE i \in differ : \A k \in differ : i <= k) - 1)},
                   calls |-> called]
             ELSE [stack |-> rest \o [i \in 1..Len(groups) |->
                                        [path |-> Append(path_prefix, i - 1),
                                         nodes |-> groups[i]]],
                   paths |-> paths, calls |-> called]

\* loop_body that records a path only while the set is empty.
loop_body_first_only(path_prefix, nodes, rest, paths) ==
    IF ~any_implicit(nodes)
    THEN [stack |-> rest, paths |-> paths, calls |-> {}]
    ELSE LET flat == [t \in 1..Len(nodes) |-> flatten_one_implicit_layer(nodes[t])]
             called == {[by |-> "reconcile", kind |-> nodes[t].kind, path |-> path_prefix] :
                        t \in 1..Len(nodes)}
             node_structures == {flat[t].struct : t \in 1..Len(nodes)}
             groups == Zip([t \in 1..Len(nodes) |-> flat[t].leaves])
             recorded == IF paths = {} THEN {path_prefix} ELSE paths
         IN  IF Cardinality(node_structures) > 1
             THEN [stack |-> rest, paths |-> recorded, calls |-> called]
             ELSE IF aval_diff(groups)
             THEN [stack |-> rest, paths |-> recorded, calls |-> called]
             ELSE [stack |-> rest \o [i \in 1..Len(groups) |->
                                        [path |-> Append(path_prefix, i - 1),
                                         nodes |-> groups[i]]],
                   paths |-> paths, calls |-> called]

\* loop_body without the test that skips a group with no ImplicitArray.
loop_body_no_skip(path_prefix, nodes, rest, paths) ==
    LET flat == [t \in 1..Len(nodes) |-> flatten_one_implicit_layer(nodes[t])]
        called == {[by |-> "reconcile", kind |-> nodes[t].kind, path |-> path_prefix] :
                   t \in 1..Len(nodes)}
        node_structures == {flat[t].struct : t \in 1..Len(nodes)}
        groups == Zip([t \in 1..Len(nodes) |-> flat[t].leaves])
    IN  IF Cardinality(node_structures) > 1
        THEN [stack |-> rest, paths |-> paths \cup {path_prefix}, calls |-> called]
        ELSE IF aval_diff(groups)
        THEN [stack |-> rest, paths |-> paths \cup {path_prefix}, calls |-> called]
        ELSE [stack |-> rest \o [i \in 1..Len(groups) |->
                                   [path |-> Append(path_prefix, i - 1),
                                    nodes |-> groups[i]]],
              paths |-> paths, calls |-> called]

\* One iteration of the loop on the entry (path_prefix, nodes) taken from the
\* stack, rest being the other entries and paths the set so far.
loop_body(path_prefix, nodes, rest, paths) ==
    IF ~any_implicit(nodes)
    THEN [stack |-> rest, paths |-> paths, calls |-> {}]
    ELSE LET flat == [t \in 1..Len(nodes) |-> flatten_one_implicit_layer(nodes[t])]
             called == {[by |-> "reconcile", kind |-> nodes[t].kind, path |-> path_prefix] :
                        t \in 1..Len(nodes)}
             node_structures == {flat[t].struct : t \in 1..Len(nodes)}
             groups == Zip([t \in 1..Len(nodes) |-> flat[t].leaves])
         IN  IF Cardinality(node_structures) > 1
             THEN [stack |-> rest, paths |-> paths \cup {path_prefix}, calls |-> called]
             ELSE IF aval_diff(groups)
             THEN [stack |-> rest, paths |-> paths \cup {path_prefix}, calls |-> called]
             ELSE [stack |-> rest \o [i \in 1..Len(groups) |->
                                        [path |-> Append(path_prefix, i - 1),
                                         nodes |-> groups[i]]],
                   paths |-> paths, calls |-> called]

RECURSIVE run_lifo(_, _)
\* The loop `while stack` run to its end from a stack and a set of paths:
\* the set it leaves.
run_lifo(stk, paths) ==
    IF stk = <<>> THEN paths
    ELSE LET r == loop_body(Last(stk).path, Last(stk).nodes, Front(stk), paths)
         IN  run_lifo(r.stack, r.paths)

VARIABLES
    trees,                  \* the argument: the trees of the call
    pc,                     \* where the call is
    stack,                  \* get_common_prefix_transforms: the stack
    materialization_paths,  \* the set of paths, also the argument of the pruning transform
    fault,                  \* the ValueError raised, or NoFault
    out,                    \* the trees the returned transforms give
    leaves,                 \* implicit_depth: leaves
    depth,                  \* implicit_depth: depth
    calls,                  \* history: the calls of flatten_one_implicit_layer
    pushes,                 \* history: the paths pushed on the stack, in order
    pops                    \* history: the paths taken from the stack, in order

vars == <<trees, pc, stack, materialization_paths, fault, out, leaves, depth,
          calls, pushes, pops>>

RECURSIVE ChooseTrees(_, _, _)
\* trees is acc followed by n trees made of at most s nodes in total.
ChooseTrees(n, s, acc) ==
    IF n = 0 THEN trees = acc
    ELSE \E k \in 0..s : \E t \in TreesOfSize(k) : ChooseTrees(n - 1, s - k, Append(acc, t))

RECURSIVE PathsOfLeaves(_, _)
\* The paths of the nodes of a sequence of leaves and below them.
PathsOfLeaves(ls, path_prefix) ==
    UNION {{Append(path_prefix, idx - 1)}
           \cup PathsOfLeaves(ls[idx].children, Append(path_prefix, idx - 1))
           : idx \in 1..Len(ls)}

AllPaths(tree) == PathsOfLeaves(tree.leaves, <<>>)

Idle ==
    /\ stack = <<>>
    /\ fault = NoFault
    /\ out = <<>>
    /\ leaves = <<>>
    /\ depth = 0
    /\ calls = {}
    /\ pushes = <<>>
    /\ pops = <<>>

\* A call of get_common_prefix_transforms(trees).
InitReconcile ==
    /\ \E n \in 0..MaxTrees : ChooseTrees(n, MaxNodes, <<>>)
    /\ pc = "reconcile"
    /\ materialization_paths = {}
    /\ Idle

\* A call of implicit_depth(tree).
InitDepth ==
    /\ ChooseTrees(1, MaxNodes, <<>>)
    /\ pc = "depth"
    /\ materialization_paths = {}
    /\ Idle

\* A call of _get_pruning_transform(tree, materialization_paths)(tree).
InitPrune ==
    /\ ChooseTrees(1, MaxNodes, <<>>)
    /\ pc = "prune"
    /\ materialization_paths \in SUBSET AllPaths(trees[1])
    /\ Idle

Init == InitReconcile \/ InitDepth \/ InitPrune

\* len(trees) <= 1: identity transforms.
ReturnIdentity ==
    /\ pc = "reconcile"
    /\ Len(trees) <= 1
    /\ pc' = "returned"
    /\ UNCHANGED <<trees, stack, materialization_paths, fault, out, leaves, depth,
                   calls, pushes, pops>>

\* The check of the structures and avals raises.
RaiseFault ==
    /\ pc = "reconcile"
    /\ Len(trees) > 1
    /\ precondition_fault(trees, 1) # NoFault
    /\ fault' = precondition_fault(trees, 1)
    /\ pc' = "fault"
    /\ UNCHANGED <<trees, stack, materialization_paths, out, leaves, depth,
                   calls, pushes, pops>>

\* The check passes: the stack gets one entry for each leaf position.
StartTraversal ==
    /\ pc = "reconcile"
    /\ Len(trees) > 1
    /\ precondition_fault(trees, 1) = NoFault
    /\ stack' = initial_stack(trees)
    /\ pushes' = [i \in 1..Len(stack') |-> stack'[i].path]
    /\ materialization_paths' = {}
    /\ pc' = "loop"
    /\ UNCHANGED <<trees, fault, out, leaves, depth, calls, pops>>

\* The entry at position k of the stack is taken and handled.
Take(k) ==
    LET entry == stack[k]
        rest == SubSeq(stack, 1, k - 1) \o SubSeq(stack, k + 1, Len(stack))
        r == loop_body(entry.path, entry.nodes, rest, materialization_paths)
    IN  /\ stack' = r.stack
        /\ materialization_paths' = r.paths
        /\ calls' = calls \cup r.calls
        /\ pops' = Append(pops, entry.path)
        /\ pushes' = pushes \o [i \in 1..(Len(r.stack) - Len(rest)) |->
                                  r.stack[Len(rest) + i].path]
        /\ UNCHANGED <<trees, pc, fault, out, leaves, depth>>

\* One iteration of `while stack`: stack.pop() takes the last entry.
Step ==
    /\ pc = "loop"
    /\ stack # <<>>
    /\ Take(Len(stack))

\* The stack is empty: one pruning transform for each tree is returned.
Return ==
    /\ pc = "loop"
    /\ stack = <<>>
    /\ pc' = "returned"
    /\ UNCHANGED <<trees, stack, materialization_paths, fault, out, leaves, depth,
                   calls, pushes, pops>>

\* The caller applies transform i to tree i.
Apply ==
    /\ pc = "returned"
    /\ out' = [i \in 1..Len(trees) |->
                 IF Len(trees) <= 1 THEN trees[i]
                 ELSE get_pruning_transform(materialization_paths, trees[i])]
    /\ calls' = calls \cup
                 UNION {IF Len(trees) <= 1 THEN {}
                        ELSE pruning_calls(materialization_paths, trees[i])
                        : i \in 1..Len(trees)}
    /\ pc' = "applied"
    /\ UNCHANGED <<trees, stack, materialization_paths, fault, leaves, depth, pushes, pops>>

\* _get_pruning_transform(tree, materialization_paths) applied to the tree.
Prune ==
    /\ pc = "prune"
    /\ out' = <<get_pruning_transform(materialization_paths, trees[1])>>
    /\ calls' = calls \cup pruning_calls(materialization_paths, trees[1])
    /\ pc' = "pruned"
    /\ UNCHANGED <<trees, stack, materialization_paths, fault, leaves, depth, pushes, pops>>

\* implicit_depth: the leaves of the tree, depth 0.
DepthStart ==
    /\ pc = "depth"
    /\ leaves' = tree_leaves_with_implicit(trees[1])
    /\ depth' = 0
    /\ pc' = "depth_loop"
    /\ UNCHANGED <<trees, stack, materialization_paths, fault, out, calls, pushes, pops>>

\* implicit_depth: a round that finds an ImplicitArray.
DepthRound ==
    /\ pc = "depth_loop"
    /\ any_implicit(leaves)
    /\ leaves' = next_leaves(leaves)
    /\ depth' = depth + 1
    /\ calls' = calls \cup {[by |-> "depth", kind |-> leaves[i].kind, path |-> <<>>] :
                            i \in {j \in 1..Len(leaves) : leaf_predicate(leaves[j])}}
    /\ UNCHANGED <<trees, pc, stack, materialization_paths, fault, out, pushes, pops>>

\* implicit_depth: a round that finds none returns depth.
DepthReturn ==
    /\ pc = "depth_loop"
    /\ ~any_implicit(leaves)
    /\ pc' = "depth_done"
    /\ UNCHANGED <<trees, stack, materialization_paths, fault, out, leaves, depth,
                   calls, pushes, pops>>

Next ==
    \/ ReturnIdentity
    \/ RaiseFault
    \/ StartTraversal
    \/ Step
    \/ Return
    \/ Apply
    \/ Prune
    \/ DepthStart
    \/ DepthRound
    \/ DepthReturn

Spec == Init /\ [][Next]_vars

\* The code runs to completion: no step waits on anything.
FairSpec == Spec /\ WF_vars(Next)

(***************************************************************************)
(* The same call with the stack replaced by a work set from which any      *)
(* entry may be taken next.                                                *)
(***************************************************************************)
StepAnyOrder ==
    /\ pc = "loop"
    /\ \E k \in 1..Len(stack) : Take(k)

NextAnyOrder ==
    \/ ReturnIdentity
    \/ RaiseFault
    \/ StartTraversal
    \/ StepAnyOrder
    \/ Return

SpecAnyOrder == InitReconcile /\ [][NextAnyOrder]_vars

(***************************************************************************)
(* The precondition check.                                                 *)
(***************************************************************************)
N == Len(trees)
Started == pc \in {"fault", "loop", "returned", "applied"}

StructureDiffers(i) ==
    tree_structure_with_implicit(trees[i]) # tree_structure_with_implicit(trees[1])

\* Tree i has the structure of tree 0 and a leaf whose aval is not that of
\* the leaf of tree 0 at the same position.
MetadataDiffers(i) ==
    /\ ~StructureDiffers(i)
    /\ \E j \in 1..Len(trees[1].leaves) : trees[i].leaves[j].meta # trees[1].leaves[j].meta

Disagreeing == {i \in 2..N : StructureDiffers(i) \/ MetadataDiffers(i)}
FirstDisagreeing == CHOOSE i \in Disagreeing : \A k \in Disagreeing : i <= k

NothingDone == stack = <<>> /\ pushes = <<>> /\ pops = <<>> /\ calls = {} /\ out = <<>>

\* C5 as stated: once a call with N >= 2 trees, one of them with a top-level
\* structure other than tree 0's, has left its entry point, it has failed with
\* the structure fault, with no stack entry made, no node expanded and no
\* transform returned.
C5_StructureFaultWhenever ==
    (Started /\ N >= 2 /\ \E i \in 2..N : StructureDiffers(i))
        => (pc = "fault" /\ fault.kind = "structure" /\ NothingDone)

\* C5 amended: such a call has failed with no stack entry made, no node
\* expanded and no transform returned; the fault is the structure fault when
\* the first tree that disagrees with tree 0, in structure or in the aval of a
\* leaf, disagrees in structure, and the avals fault when it has the
\* structure of tree 0.
C5_FailsBeforeTraversal ==
    (Started /\ N >= 2 /\ \E i \in 2..N : StructureDiffers(i))
        => /\ pc = "fault"
           /\ NothingDone
           /\ fault.kind = IF StructureDiffers(FirstDisagreeing) THEN "structure" ELSE "avals"

\* Three trees: tree 1 agrees with tree 0, tree 2 has another structure.
C5_Witness ==
    /\ pc = "fault"
    /\ N = 3
    /\ fault.kind = "structure"
    /\ ~StructureDiffers(2) /\ ~MetadataDiffers(2)
    /\ StructureDiffers(3)
    /\ \E j \in 1..Min(Len(trees[1].leaves), Len(trees[3].leaves)) :
          trees[3].leaves[j].meta # trees[1].leaves[j].meta

\* C6 as stated: the structure fault carries the index of the first tree
\* whose structure is not tree 0's.
C6_StructureFaultCarriesIndex ==
    (pc = "fault" /\ fault.kind = "structure")
        => /\ "tree" \in DOMAIN fault
           /\ fault.tree = (CHOOSE i \in 2..N : StructureDiffers(i)
                               /\ \A k \in 2..N : StructureDiffers(k) => i <= k) - 1

\* C6 amended: the structure fault carries no index; the avals fault carries
\* the index of the first tree that disagrees with tree 0 and, for the first
\* leaf position where they differ, the aval of tree 0 and the aval of that
\* tree.
C6_FaultContents ==
    pc = "fault" =>
        /\ fault.kind \in {"structure", "avals"}
        /\ fault.kind = "structure" => DOMAIN fault = {"kind"}
        /\ fault.kind = "avals" =>
              /\ fault.tree = FirstDisagreeing - 1
              /\ \E j \in 1..Len(trees[1].leaves) :
                    /\ fault.expected = trees[1].leaves[j].meta
                    /\ fault.actual = trees[FirstDisagreeing].leaves[j].meta
                    /\ fault.expected # fault.actual
                    /\ \A k \in 1..(j - 1) :
                          trees[FirstDisagreeing].leaves[k].meta = trees[1].leaves[k].meta

\* An avals fault for tree 1 of three trees, not at the first leaf.
C6_Witness ==
    /\ pc = "fault"
    /\ N = 3
    /\ fault.kind = "avals"
    /\ fault.tree = 1
    /\ trees[2].leaves[1].meta = trees[1].leaves[1].meta

(***************************************************************************)
(* The traversal.                                                          *)
(***************************************************************************)
NoNode == [kind |-> "none", meta |-> "none", children |-> <<>>]

RECURSIVE NodeIn(_, _)
\* The node a path addresses below a sequence of leaves: the first index
\* picks a leaf, the next ones pick children of ImplicitArrays.
NodeIn(ls, path) ==
    IF Head(path) + 1 > Len(ls) THEN NoNode
    ELSE LET node == ls[Head(path) + 1]
         IN  IF Len(path) = 1 THEN node
             ELSE IF node.kind = "V" THEN NodeIn(node.children, Tail(path))
             ELSE NoNode

NodeAt(tree, path) == NodeIn(tree.leaves, path)

\* The nodes of the input trees at a path.
Group(P) == [t \in 1..N |-> NodeAt(trees[t], P)]
Exists(P) == \A t \in 1..N : Group(P)[t].kind # "none"

\* All nodes are ImplicitArrays whose layers have the same number of children
\* and, position by position, children of the same aval.
ExpansionsAgree(g) ==
    \A t \in 1..Len(g) :
        /\ g[t].kind = "V"
        /\ Len(g[t].children) = Len(g[1].children)
        /\ \A j \in 1..Len(g[1].children) : g[t].children[j].meta = g[1].children[j].meta

Diverges(g) == (\E t \in 1..Len(g) : g[t].kind = "V") /\ ~ExpansionsAgree(g)

AgreesAbove(P) == \A k \in 1..(Len(P) - 1) : ExpansionsAgree(Group(SubSeq(P, 1, k)))

\* The positions the trees share at the levels where they agree.
AgreedPositions == {P \in AllPaths(trees[1]) : Exists(P) /\ AgreesAbove(P)}

ExpectedPaths == {P \in AgreedPositions : Diverges(Group(P))}

Returned == pc \in {"returned", "applied"} /\ N >= 2

\* The traversal has begun.
Traversed == pc \in {"loop", "returned", "applied"} /\ N >= 2

\* C2: the set the traversal returns is the set of the paths at which the
\* trees' layers disagree, in the number of children or in the aval of a
\* child, while they agree at every proper prefix.
C2_ExactlyTheDivergentPaths == Returned => materialization_paths = ExpectedPaths

\* The trees agree at (0,) and differ in the layer of (0, 0): the set is
\* {(0, 0)}.
C2_Witness ==
    /\ Returned
    /\ materialization_paths = {<<0, 0>>}
    /\ \E t \in 1..N : NodeAt(trees[t], <<0, 0>>).kind = "V"

NoPrefixPairs(S) == \A p \in S : \A q \in S : IsPrefix(p, q) => p = q

\* C3: at every point of the traversal and after it, no path of the set is
\* a prefix of another one, and no path on the stack has a path of the set as
\* a prefix.
C3_NoPrefix ==
    Traversed =>
        /\ NoPrefixPairs(materialization_paths)
        /\ \A i \in 1..Len(stack) : \A p \in materialization_paths :
              ~IsPrefix(p, stack[i].path)

\* A path is recorded and entries are still on the stack.
C3_Witness ==
    /\ pc = "loop"
    /\ materialization_paths # {}
    /\ stack # <<>>

NoDuplicates(s) == \A i \in 1..Len(s) : \A j \in 1..Len(s) : s[i] = s[j] => i = j

C10_Once ==
    Traversed =>
        /\ NoDuplicates(pushes)
        /\ NoDuplicates(pops)
        /\ Range(pops) \subseteq Range(pushes)
        /\ Range(pushes) = Range(pops) \cup {stack[i].path : i \in 1..Len(stack)}
        /\ Len(pushes) = Len(pops) + Len(stack)
        /\ Len(pops) <= Cardinality(AgreedPositions)
        /\ pc # "loop" => stack = <<>>

\* C10: the traversal ends; until then and after, every path has been pushed
\* at most once and taken at most once, what was pushed is what was taken or
\* is on the stack, and the entries taken are at most as many as the
\* positions of the levels where the trees agree.
C10_Terminates == []C10_Once /\ ((pc = "loop") ~> (pc = "returned"))

\* The traversal has ended after taking entries below the top level.
C10_Witness ==
    /\ pc = "returned"
    /\ \E i \in 1..Len(pops) : Len(pops[i]) = 2
    /\ Len(pops) = Cardinality(AgreedPositions)

\* C8: whatever the order in which the entries are taken, the set returned is
\* the one the stack order gives.
C8_OrderIndependent ==
    Returned => materialization_paths = run_lifo(initial_stack(trees), {})

\* The entries were taken in the order they were pushed, oldest first, and
\* two paths were recorded.
C8_Witness ==
    /\ Returned
    /\ Len(pops) >= 2
    /\ pops = pushes
    /\ Cardinality(materialization_paths) >= 2

(***************************************************************************)
(* The transforms.                                                         *)
(***************************************************************************)
RECURSIVE Compatible(_)
\* The nodes of a group are concrete leaves of one aval, or ImplicitArrays
\* whose layers have equal PyTreeDefs and children of equal avals, the groups
\* of their children being compatible in turn.
Compatible(g) ==
    \/ \A t \in 1..Len(g) : g[t].kind = "C" /\ g[t].meta = g[1].meta
    \/ /\ \A t \in 1..Len(g) :
             /\ g[t].kind = "V"
             /\ flatten_one_implicit_layer(g[t]).struct = flatten_one_implicit_layer(g[1]).struct
             /\ Len(g[t].children) = Len(g[1].children)
             /\ \A j \in 1..Len(g[1].children) :
                   g[t].children[j].meta = g[1].children[j].meta
       /\ \A j \in 1..Len(g[1].children) :
             Compatible([t \in 1..Len(g) |-> g[t].children[j]])

\* C1: the trees the transforms give have one structure, their nodes are
\* compatible at every path, and the node at every recorded path is a
\* concrete leaf in each of them.
C1_CommonStructure ==
    (pc = "applied" /\ N >= 2) =>
        /\ Len(out) = N
        /\ \A t \in 1..N :
              tree_structure_with_implicit(out[t]) = tree_structure_with_implicit(out[1])
        /\ \A i \in 1..Len(out[1].leaves) : Compatible([t \in 1..N |-> out[t].leaves[i]])
        /\ \A P \in materialization_paths : \A t \in 1..N : NodeAt(out[t], P).kind = "C"

\* A node below the top level was materialized in a tree, under an
\* ImplicitArray that stays one.
C1_Witness ==
    /\ pc = "applied"
    /\ N >= 2
    /\ <<0, 0>> \in materialization_paths
    /\ \E t \in 1..N : NodeAt(trees[t], <<0, 0>>).kind = "V"
    /\ \A t \in 1..N : NodeAt(out[t], <<0>>).kind = "V"

Shallow(node) == [kind |-> node.kind, meta |-> node.meta, arity |-> Len(node.children)]

\* C4: the pruning transform of a set S of paths gives a tree of the same
\* top-level structure with no new path; a node at a path of S (none of S
\* above it) is a concrete leaf, the same one if it was concrete; a node
\* neither at nor below a path of S keeps its kind, aval and number of
\* children, and is the same node when no path of S is below it; with S empty
\* the tree is the same.
C4_OnlyThePathsOfS ==
    pc = "pruned" =>
        LET S == materialization_paths
            tin == trees[1]
            tout == out[1]
            Covered(P) == \E Q \in S : IsPrefix(Q, P)
        IN  /\ S = {} => tout = tin
            /\ tree_structure_with_implicit(tout) = tree_structure_with_implicit(tin)
            /\ AllPaths(tout) \subseteq AllPaths(tin)
            /\ \A P \in AllPaths(tin) :
                  /\ (P \in S /\ ~\E Q \in S : IsProperPrefix(Q, P)) =>
                        /\ NodeAt(tout, P).kind = "C"
                        /\ NodeAt(tin, P).kind = "C" => NodeAt(tout, P) = NodeAt(tin, P)
                  /\ ~Covered(P) =>
                        /\ Shallow(NodeAt(tout, P)) = Shallow(NodeAt(tin, P))
                        /\ (~\E Q \in S : IsPrefix(P, Q)) => NodeAt(tout, P) = NodeAt(tin, P)

\* An ImplicitArray that wraps another one was materialized at (0,), and the
\* ImplicitArray at (1,) was kept.
C4_Witness ==
    /\ pc = "pruned"
    /\ materialization_paths = {<<0>>}
    /\ NodeAt(trees[1], <<0, 0>>).kind = "V"
    /\ NodeAt(out[1], <<0>>).kind = "C"
    /\ NodeAt(out[1], <<1>>).kind = "V"

(***************************************************************************)
(* implicit_depth.                                                         *)
(***************************************************************************)
RECURSIVE Nesting(_)
\* The number of ImplicitArrays on the longest chain from a node down.
Nesting(node) ==
    IF node.kind # "V" THEN 0
    ELSE LET below == {Nesting(node.children[j]) : j \in 1..Len(node.children)}
         IN  1 + (IF below = {} THEN 0 ELSE CHOOSE m \in below : \A k \in below : k <= m)

TreeNesting(tree) ==
    LET below == {Nesting(tree.leaves[j]) : j \in 1..Len(tree.leaves)}
    IN  IF below = {} THEN 0 ELSE CHOOSE m \in below : \A k \in below : k <= m

\* The levels of a tree that hold an ImplicitArray.
VirtualLevels(tree) == {Len(P) : P \in {Q \in AllPaths(tree) : NodeAt(tree, Q).kind = "V"}}

\* C7: implicit_depth returns the largest number of ImplicitArrays nested
\* along a chain of the tree, which is the number of levels that hold one.
C7_DepthIsMaxNesting ==
    pc = "depth_done" =>
        /\ depth = TreeNesting(trees[1])
        /\ depth = Cardinality(VirtualLevels(trees[1]))

\* Two leaves nested to different depths: 2 and 1.
C7_Witness ==
    /\ pc = "depth_done"
    /\ depth = 2
    /\ Len(trees[1].leaves) = 2
    /\ Nesting(trees[1].leaves[1]) = 2
    /\ Nesting(trees[1].leaves[2]) = 1

(***************************************************************************)
(* The calls of flatten_one_implicit_layer.                                *)
(***************************************************************************)
\* C9 as stated: flatten_one_implicit_layer is called on ImplicitArrays only.
C9_OnlyOnVirtual == \A c \in calls : c.kind = "V"

\* C9 amended: implicit_depth and the leaf mapper call it on ImplicitArrays
\* only; get_common_prefix_transforms calls it on a concrete leaf too, when
\* the leaf is in a group with an ImplicitArray: the call raises nothing and
\* the path of the group is recorded.
C9_ConcreteOnlyInMixedGroup ==
    /\ \A c \in calls :
          c.kind = "C" =>
              /\ c.by = "reconcile"
              /\ [by |-> "reconcile", kind |-> "V", path |-> c.path] \in calls
              /\ c.path \in materialization_paths
    /\ calls # {} => fault = NoFault

\* The mapper has run after a group that mixes a concrete leaf with an
\* ImplicitArray was expanded.
C9_Witness ==
    /\ pc = "applied"
    /\ \E c \in calls : c.kind = "C"
    /\ \E c \in calls : c.by = "map"
====
